---- MODULE Spec2Model ----
(***************************************************************************)
(* Model of evaluation/plotting_common.py: the global plotting style, the  *)
(* category palette, the byte-count tick formatter and its attachment to   *)
(* an axis.                                                                *)
(***************************************************************************)
EXTENDS Integers, Sequences, FiniteSets, TLC

VARIABLES rcParams, axes, category_colors, category_markers, call

vars == <<rcParams, axes, category_colors, category_markers, call>>

(***************************************************************************)
(* Numbers.  A Python int is unbounded, an integer of TLC is not: a Python *)
(* int is written here as the sequence of its digits in base 2^10, least   *)
(* significant first, without leading zeros (<<>> is 0).  Only the         *)
(* non-negative ints are modelled.                                         *)
(***************************************************************************)

LimbBits == 10

Base == 2 ^ LimbBits

RECURSIVE FromNat(_)
FromNat(n) == IF n = 0 THEN <<>> ELSE <<n % Base>> \o FromNat(n \div Base)

RECURSIVE Norm(_)
Norm(x) ==
    IF Len(x) = 0 THEN <<>>
    ELSE IF x[Len(x)] = 0 THEN Norm(SubSeq(x, 1, Len(x) - 1))
    ELSE x

LimbAt(x, i) == IF i >= 1 /\ i <= Len(x) THEN x[i] ELSE 0

\* bit j (from 0) of x
BitOf(x, j) == (LimbAt(x, (j \div LimbBits) + 1) \div (2 ^ (j % LimbBits))) % 2

RECURSIVE BitLenNat(_)
BitLenNat(n) == IF n = 0 THEN 0 ELSE 1 + BitLenNat(n \div 2)

\* int.bit_length()
BitLength(x) ==
    IF Len(x) = 0 THEN 0 ELSE LimbBits * (Len(x) - 1) + BitLenNat(x[Len(x)])

\* x >> t
ShrBits(x, t) ==
    LET k == t \div LimbBits
        s == t % LimbBits
    IN  IF Len(x) <= k THEN <<>>
        ELSE Norm([i \in 1..(Len(x) - k) |->
                     (x[i + k] \div (2 ^ s))
                     + (LimbAt(x, i + k + 1) % (2 ^ s)) * (2 ^ (LimbBits - s))])

\* x << t
ShlBits(x, t) ==
    LET k == t \div LimbBits
        s == t % LimbBits
    IN  IF Len(x) = 0 THEN <<>>
        ELSE Norm([i \in 1..(Len(x) + k + 1) |->
                     ((LimbAt(x, i - k) * (2 ^ s)) % Base)
                     + (LimbAt(x, i - k - 1) \div (2 ^ (LimbBits - s)))])

RECURSIVE AddC(_, _, _, _)
AddC(a, b, i, c) ==
    IF i > Len(a) /\ i > Len(b) THEN (IF c = 0 THEN <<>> ELSE <<c>>)
    ELSE <<(LimbAt(a, i) + LimbAt(b, i) + c) % Base>>
         \o AddC(a, b, i + 1, (LimbAt(a, i) + LimbAt(b, i) + c) \div Base)

\* a + b
Add(a, b) == AddC(a, b, 1, 0)

RECURSIVE LessFrom(_, _, _)
LessFrom(a, b, i) ==
    IF i = 0 THEN FALSE
    ELSE IF a[i] # b[i] THEN a[i] < b[i]
    ELSE LessFrom(a, b, i - 1)

\* a < b
Less(a, b) ==
    IF Len(a) # Len(b) THEN Len(a) < Len(b) ELSE LessFrom(a, b, Len(a))

Leq(a, b) == ~Less(b, a)

\* the exponent of a power of two
RECURSIVE Log2(_)
Log2(d) == IF d <= 1 THEN 0 ELSE 1 + Log2(d \div 2)

(***************************************************************************)
(* Floats.  A Python float is an IEEE-754 double: here sig * 2^exp with a  *)
(* significand of at most MantissaBits bits.  The inputs of the model stay *)
(* far inside the exponent range of a double, which is not modelled.       *)
(***************************************************************************)

MantissaBits == 53

\* variant: a tie goes up, as int(v + 0.5) would round
RoundHalfUp(x, t) ==
    IF t = 0 THEN x
    ELSE IF BitOf(x, t - 1) = 1 THEN Add(ShrBits(x, t), <<1>>)
    ELSE ShrBits(x, t)

\* x / 2^t rounded to the nearest integer, a tie going to the even one
RoundHalfEven(x, t) ==
    IF t = 0 THEN x
    ELSE LET q      == ShrBits(x, t)
             guard  == BitOf(x, t - 1)
             sticky == \E j \in 0..(t - 2) : BitOf(x, j) = 1
         IN  IF guard = 1 /\ (sticky \/ BitOf(q, 0) = 1)
             THEN Add(q, <<1>>)
             ELSE q

\* int / int for a divisor d that is a power of two: the double nearest to
\* the exact quotient (CPython's long_true_divide rounds correctly)
TrueDiv(x, d) ==
    LET drop == IF BitLength(x) > MantissaBits
                THEN BitLength(x) - MantissaBits
                ELSE 0
    IN  [sig |-> RoundHalfEven(x, drop), exp |-> drop - Log2(d)]

\* float(x), which format() applies to an int given the 'f' presentation
ToFloat(x) == TrueDiv(x, 1)

\* the integer nearest to a double, a tie going to the even one
RoundToInt(f) ==
    IF f.exp >= 0 THEN ShlBits(f.sig, f.exp) ELSE RoundHalfEven(f.sig, -f.exp)

\* (quotient, remainder) of x by 10, from the most significant digit down
RECURSIVE DivMod10From(_, _, _)
DivMod10From(x, i, r) ==
    IF i = 0 THEN <<r>>
    ELSE DivMod10From(x, i - 1, (r * Base + x[i]) % 10)
         \o <<(r * Base + x[i]) \div 10>>

DivMod10(x) ==
    LET dm == DivMod10From(x, Len(x), 0)
    IN  [q |-> Norm(Tail(dm)), r |-> Head(dm)]

\* the decimal digits of a non-negative int
RECURSIVE Dec(_)
Dec(x) ==
    IF Len(x) <= 1 /\ LimbAt(x, 1) < 10 THEN ToString(LimbAt(x, 1))
    ELSE Dec(DivMod10(x).q) \o ToString(DivMod10(x).r)

\* "{:.0f}".format(f): no decimals, correctly rounded
Format0f(f) == Dec(RoundToInt(f))

(***************************************************************************)
(* bytes_to_human_readable(x, pos)                                         *)
(***************************************************************************)

\* variant: the thresholds compared with <= instead of <
bytes_to_human_readable_Inclusive(x, pos) ==
    IF Leq(x, FromNat(1024)) THEN Format0f(ToFloat(x)) \o "B"
    ELSE IF Leq(x, FromNat(1024 ^ 2)) THEN Format0f(TrueDiv(x, 1024)) \o "KiB"
    ELSE Format0f(TrueDiv(x, 1024 ^ 2)) \o "MiB"

\* variant: only the ticks at even positions are labelled
bytes_to_human_readable_Alternating(x, pos) ==
    IF Len(pos) = 1 /\ pos[1] % 2 = 1 THEN ""
    ELSE IF Less(x, FromNat(1024)) THEN Format0f(ToFloat(x)) \o "B"
    ELSE IF Less(x, FromNat(1024 ^ 2)) THEN Format0f(TrueDiv(x, 1024)) \o "KiB"
    ELSE Format0f(TrueDiv(x, 1024 ^ 2)) \o "MiB"

\* variant: the unit is chosen again after rounding, 1024 KiB becoming 1 MiB
bytes_to_human_readable_Promoting(x, pos) ==
    IF Less(x, FromNat(1024)) THEN Format0f(ToFloat(x)) \o "B"
    ELSE IF Less(x, FromNat(1024 ^ 2))
              /\ RoundToInt(TrueDiv(x, 1024)) # FromNat(1024)
         THEN Format0f(TrueDiv(x, 1024)) \o "KiB"
    ELSE Format0f(TrueDiv(Add(x, FromNat(512)), 1024 ^ 2)) \o "MiB"

bytes_to_human_readable(x, pos) ==
    IF Less(x, FromNat(1024)) THEN Format0f(ToFloat(x)) \o "B"
    ELSE IF Less(x, FromNat(1024 ^ 2)) THEN Format0f(TrueDiv(x, 1024)) \o "KiB"
    ELSE Format0f(TrueDiv(x, 1024 ^ 2)) \o "MiB"

(***************************************************************************)
(* The category palette (module level).                                    *)
(***************************************************************************)

\* sns.color_palette("husl", n): n colours of evenly spaced hues, the hue of
\* colour i being (i/n + 0.01) mod 1 of a turn, here in 1/(100 n) of a turn,
\* at saturation 0.9 and lightness 0.65 (in percent)
husl_palette(n) ==
    [i \in 0..(n - 1) |->
        [hue |-> (100 * i + n) % (100 * n), turn |-> 100 * n, s |-> 90, l |-> 65]]

colors == husl_palette(6)

\* variant: the palette indexed from 1
InitCategoryColors_OneBased ==
    [prime |-> colors[4], round |-> colors[1], round_minus_one |-> colors[3]]

InitCategoryColors ==
    [prime |-> colors[3], round |-> colors[0], round_minus_one |-> colors[2]]

InitCategoryMarkers ==
    [prime |-> "*", round |-> "x", round_minus_one |-> "o"]

\* variant: a dict with a default (a defaultdict): a missing key is added
GetItem_Defaulting(d, k) ==
    IF k \in DOMAIN d
    THEN [raised |-> "", value |-> <<d[k]>>, dict |-> d]
    ELSE [raised |-> "", value |-> <<d["prime"]>>, dict |-> (k :> d["prime"]) @@ d]

\* d[k] of a dict: the value, or KeyError; "dict" is d after the lookup
GetItem(d, k) ==
    IF k \in DOMAIN d
    THEN [raised |-> "", value |-> <<d[k]>>, dict |-> d]
    ELSE [raised |-> "KeyError", value |-> <<>>, dict |-> d]

(***************************************************************************)
(* The global rendering configuration (matplotlib.rcParams), restricted to *)
(* the keys below: those of the ggplot style sheet that the model keeps,   *)
(* the three keys setup_plotting_style sets, and one key neither touches.  *)
(***************************************************************************)

\* matplotlib's style library: the settings of a style sheet
StyleLibrary(name) ==
    IF name = "ggplot"
    THEN ("axes.facecolor" :> "E5E5E5") @@ ("axes.grid" :> TRUE)
         @@ ("font.size" :> 10)
    ELSE <<>>

\* rcParams.update(settings)
Update(rc, settings) ==
    [k \in DOMAIN rc |-> IF k \in DOMAIN settings THEN settings[k] ELSE rc[k]]

\* matplotlib.style.use(name): the sheet's settings on top of the current ones
StyleUse(rc, name) == Update(rc, StyleLibrary(name))

\* variant: the font family is not set
setup_plotting_style_NoFont(rc) ==
    Update(Update(StyleUse(rc, "ggplot"), "figure.dpi" :> 300),
           "text.usetex" :> TRUE)

\* variant: the resolution is scaled instead of set
setup_plotting_style_Scaling(rc) ==
    Update(Update(StyleUse(rc, "ggplot"), "figure.dpi" :> 3 * rc["figure.dpi"]),
           ("text.usetex" :> TRUE) @@ ("font.family" :> "serif"))

setup_plotting_style(rc) ==
    Update(Update(StyleUse(rc, "ggplot"), "figure.dpi" :> 300),
           ("text.usetex" :> TRUE) @@ ("font.family" :> "serif"))

(***************************************************************************)
(* Axes and their tick formatters.                                         *)
(***************************************************************************)

FuncFormatter(f) == [kind |-> "FuncFormatter", func |-> f]

NullFormatter == [kind |-> "NullFormatter", func |-> ""]

ScalarFormatter == [kind |-> "ScalarFormatter", func |-> ""]

\* formatter(x, pos): the label of the tick at x
FormatTick(fmt, x, pos) ==
    IF fmt.kind = "FuncFormatter" /\ fmt.func = "bytes_to_human_readable"
    THEN bytes_to_human_readable(x, pos)
    ELSE IF fmt.kind = "NullFormatter" THEN ""
    ELSE Dec(x)

\* the parameter minor = False: the value given, or the default
MinorParam(args) == IF Len(args) = 0 THEN FALSE ELSE args[1]

\* variant: without the else branch, the minor formatter is left as it was
setup_bytes_formatters_KeepMinor(ax, axis, minor) ==
    [ax EXCEPT
        ![axis] = [major |-> FuncFormatter("bytes_to_human_readable"),
                   minor |-> IF minor
                             THEN FuncFormatter("bytes_to_human_readable")
                             ELSE ax[axis].minor]]

\* variant: the formatters are set on every axis, not on the one passed in
setup_bytes_formatters_AllAxes(ax, axis, minor) ==
    [a \in DOMAIN ax |->
        [major |-> FuncFormatter("bytes_to_human_readable"),
         minor |-> IF minor
                   THEN FuncFormatter("bytes_to_human_readable")
                   ELSE NullFormatter]]

\* the axes after setup_bytes_formatters(axis, minor)
setup_bytes_formatters(ax, axis, minor) ==
    [ax EXCEPT
        ![axis] = [major |-> FuncFormatter("bytes_to_human_readable"),
                   minor |-> IF minor
                             THEN FuncFormatter("bytes_to_human_readable")
                             ELSE NullFormatter]]

(***************************************************************************)
(* Bounds and inputs.                                                      *)
(***************************************************************************)

MaxSmall == 4100

MaxHigh == 2

MaxMant == 21

MaxDelta == 2

MaxPos == 1

MaxRepeat == 3

Axes == {"xaxis", "yaxis"}

Labels == {"prime", "round", "round_minus_one"}

\* the labels a caller may look up: the defined ones and some others
LookupKeys == Labels \cup {"square", "Prime", ""}

\* pos, as a tick formatter is called: None (<<>>) or the tick's index
Positions == {<<>>} \cup {<<p>> : p \in 0..MaxPos}

\* the arguments given for minor: none, True or False
MinorArgs == {<<>>, <<TRUE>>, <<FALSE>>}

\* every int up to MaxSmall, and h * 2^52 + m * 2^e + d near the thresholds,
\* the halves and the end of a double's exact integers
Inputs ==
    {FromNat(n) : n \in 0..MaxSmall}
    \cup {Add(ShlBits(FromNat(h), 52), FromNat(m * (2 ^ e) + d)) :
            <<h, m, e, d>> \in
              {t \in (0..MaxHigh) \X (0..MaxMant) \X {9, 10, 19, 20}
                       \X ((0 - MaxDelta)..MaxDelta) :
                  t[2] * (2 ^ t[3]) + t[4] >= 0}}

SystemInputs == {FromNat(n) : n \in {0, 1023, 1024, 1536, 1048575, 1048576}}

RcConfigs ==
    {("axes.facecolor" :> fc) @@ ("axes.grid" :> FALSE) @@ ("font.size" :> 10)
     @@ ("figure.dpi" :> dpi) @@ ("text.usetex" :> tex)
     @@ ("font.family" :> fam) @@ ("lines.linewidth" :> lw) :
        fc \in {"white", "E5E5E5"}, dpi \in {100, 300},
        tex \in BOOLEAN, fam \in {"sans-serif", "serif"}, lw \in {1, 2}}

AxisConfigs ==
    {[major |-> ScalarFormatter, minor |-> NullFormatter],
     [major |-> NullFormatter, minor |-> ScalarFormatter],
     [major |-> FuncFormatter("bytes_to_human_readable"),
      minor |-> FuncFormatter("bytes_to_human_readable")]}

\* matplotlib's defaults
DefaultRc ==
    ("axes.facecolor" :> "white") @@ ("axes.grid" :> FALSE) @@ ("font.size" :> 10)
    @@ ("figure.dpi" :> 100) @@ ("text.usetex" :> FALSE)
    @@ ("font.family" :> "sans-serif") @@ ("lines.linewidth" :> 1)

DefaultAxis == [major |-> ScalarFormatter, minor |-> NullFormatter]

(***************************************************************************)
(* The calls.  call records the last call made and what it returned.       *)
(***************************************************************************)

NoCall ==
    [op |-> "", nth |-> 0, axis |-> "", minor |-> <<>>, x |-> <<>>, pos |-> <<>>,
     result |-> "", mapping |-> "", key |-> "", raised |-> "", value |-> <<>>]

Init ==
    /\ rcParams \in RcConfigs
    /\ axes \in [Axes -> AxisConfigs]
    /\ category_colors = InitCategoryColors
    /\ category_markers = InitCategoryMarkers
    /\ call = NoCall

SetupPlottingStyle ==
    /\ rcParams' = setup_plotting_style(rcParams)
    /\ call' = [NoCall EXCEPT
                  !.op = "setup_plotting_style",
                  !.nth = IF call.op = "setup_plotting_style" /\ call.nth < MaxRepeat
                          THEN call.nth + 1
                          ELSE IF call.op = "setup_plotting_style" THEN call.nth
                          ELSE 1]
    /\ UNCHANGED <<axes, category_colors, category_markers>>

SetupBytesFormatters(axis, args) ==
    /\ axes' = setup_bytes_formatters(axes, axis, MinorParam(args))
    /\ call' = [NoCall EXCEPT
                  !.op = "setup_bytes_formatters", !.axis = axis, !.minor = args]
    /\ UNCHANGED <<rcParams, category_colors, category_markers>>

BytesToHumanReadable(x, pos) ==
    /\ call' = [NoCall EXCEPT
                  !.op = "bytes_to_human_readable", !.x = x, !.pos = pos,
                  !.result = bytes_to_human_readable(x, pos)]
    /\ UNCHANGED <<rcParams, axes, category_colors, category_markers>>

LookupColor(k) ==
    /\ category_colors' = GetItem(category_colors, k).dict
    /\ call' = [NoCall EXCEPT
                  !.op = "lookup", !.mapping = "category_colors", !.key = k,
                  !.raised = GetItem(category_colors, k).raised,
                  !.value = GetItem(category_colors, k).value]
    /\ UNCHANGED <<rcParams, axes, category_markers>>

LookupMarker(k) ==
    /\ category_markers' = GetItem(category_markers, k).dict
    /\ call' = [NoCall EXCEPT
                  !.op = "lookup", !.mapping = "category_markers", !.key = k,
                  !.raised = GetItem(category_markers, k).raised,
                  !.value = GetItem(category_markers, k).value]
    /\ UNCHANGED <<rcParams, axes, category_colors>>

Next ==
    \/ SetupPlottingStyle
    \/ \E a \in Axes, args \in MinorArgs : SetupBytesFormatters(a, args)
    \/ \E x \in SystemInputs, pos \in Positions : BytesToHumanReadable(x, pos)
    \/ \E k \in LookupKeys : LookupColor(k)
    \/ \E k \in LookupKeys : LookupMarker(k)

Spec == Init /\ [][Next]_vars

\* the formatter alone, over the larger set of inputs: the arguments are
\* drawn at the start and the call is made once
InitFmt ==
    /\ rcParams = DefaultRc
    /\ axes = [a \in Axes |-> DefaultAxis]
    /\ category_colors = InitCategoryColors
    /\ category_markers = InitCategoryMarkers
    /\ \E x \in Inputs, pos \in Positions :
          call = [NoCall EXCEPT !.x = x, !.pos = pos]

NextFmt == call.op = "" /\ BytesToHumanReadable(call.x, call.pos)

SpecFmt == InitFmt /\ [][NextFmt]_vars

(***************************************************************************)
(* Reading a label back: its unit, and the number printed before it.       *)
(***************************************************************************)

EndsWith(str, suffix) ==
    /\ Len(str) >= Len(suffix)
    /\ SubSeq(str, Len(str) - Len(suffix) + 1, Len(str)) = suffix

UnitOf(str) ==
    IF EndsWith(str, "KiB") THEN "KiB"
    ELSE IF EndsWith(str, "MiB") THEN "MiB"
    ELSE IF EndsWith(str, "B") THEN "B"
    ELSE ""

IsDigit(c) == \E d \in 0..9 : ToString(d) = c

DigitOf(c) == CHOOSE d \in 0..9 : ToString(d) = c

NumeralOf(str) == SubSeq(str, 1, Len(str) - Len(UnitOf(str)))

IsNumeral(str) ==
    /\ Len(str) >= 1
    /\ \A i \in 1..Len(str) : IsDigit(SubSeq(str, i, i))
    /\ Len(str) > 1 => SubSeq(str, 1, 1) # "0"

RECURSIVE MulSmallC(_, _, _, _)
MulSmallC(x, k, i, c) ==
    IF i > Len(x) THEN (IF c = 0 THEN <<>> ELSE <<c>>)
    ELSE <<(x[i] * k + c) % Base>> \o MulSmallC(x, k, i + 1, (x[i] * k + c) \div Base)

RECURSIVE ParseDecFrom(_, _)
ParseDecFrom(str, i) ==
    IF i = 0 THEN <<>>
    ELSE Add(MulSmallC(ParseDecFrom(str, i - 1), 10, 1, 0),
             FromNat(DigitOf(SubSeq(str, i, i))))

RECURSIVE SubC(_, _, _, _)
SubC(a, b, i, c) ==
    IF i > Len(a) THEN <<>>
    ELSE <<(LimbAt(a, i) - LimbAt(b, i) - c) % Base>>
         \o SubC(a, b, i + 1, IF LimbAt(a, i) - LimbAt(b, i) - c < 0 THEN 1 ELSE 0)

\* a - b, for a >= b
Sub(a, b) == Norm(SubC(a, b, 1, 0))

\* |a - b|
AbsDiff(a, b) == IF Less(a, b) THEN Sub(b, a) ELSE Sub(a, b)

\* the int a label prints before its unit
NumberOf(str) == ParseDecFrom(NumeralOf(str), Len(NumeralOf(str)))

Called(op) == call.op = op

KiB == FromNat(1024)

MiB == FromNat(1024 * 1024)

InKiBRange(x) == Leq(KiB, x) /\ Less(x, MiB)

InMiBRange(x) == Leq(MiB, x)

NearestEven(n, x, e) ==
    /\ Leq(ShlBits(AbsDiff(ShlBits(n, e), x), 1), ShlBits(<<1>>, e))
    /\ (BitOf(x, e - 1) = 1 /\ \A j \in 0..(e - 2) : BitOf(x, j) = 0)
          => BitOf(n, 0) = 0

RoundsToNearest ==
    /\ InKiBRange(call.x) => NearestEven(NumberOf(call.result), call.x, 10)
    /\ InMiBRange(call.x) => NearestEven(NumberOf(call.result), call.x, 20)
    /\ call.x = FromNat(1536) => call.result = "2KiB"
    /\ call.x = FromNat(2048) => call.result = "2KiB"
    /\ call.x = FromNat(5242880) => call.result = "5MiB"

\* C2 as stated: for every value >= 1024 the printed number is value / unit
\* rounded to the nearest integer, an exact half going to the even neighbour.
C2_NearestForEveryValue ==
    Called("bytes_to_human_readable") => RoundsToNearest

\* C2 as amended: the same for every value with 1024 <= value <= 2^53, the
\* values whose quotient by the unit a double holds exactly.
C2_NearestUpToTwoTo53 ==
    (Called("bytes_to_human_readable") /\ Leq(call.x, ShlBits(<<1>>, 53)))
        => RoundsToNearest

C2_Witness ==
    /\ Called("bytes_to_human_readable")
    /\ call.x = FromNat(2560)
    /\ call.result = "2KiB"

\* C8: the label does not depend on pos: whatever position the call was
\* given, every other position (None included) gives the same label.
C8_PositionIgnored ==
    Called("bytes_to_human_readable") =>
        \A p \in Positions : bytes_to_human_readable(call.x, p) = call.result

C8_Witness ==
    /\ Called("bytes_to_human_readable")
    /\ call.pos = <<1>>
    /\ call.result = "2KiB"

C3_FormattersAfterSetup ==
    Called("setup_bytes_formatters") =>
        /\ axes[call.axis].major = FuncFormatter("bytes_to_human_readable")
        /\ \A x \in SystemInputs, p \in Positions :
              FormatTick(axes[call.axis].major, x, p) = bytes_to_human_readable(x, p)
        /\ call.minor = <<TRUE>> =>
              \A x \in SystemInputs, p \in Positions :
                 FormatTick(axes[call.axis].minor, x, p)
                    = FormatTick(axes[call.axis].major, x, p)
        /\ call.minor \in {<<>>, <<FALSE>>} =>
              /\ axes[call.axis].minor = NullFormatter
              /\ \A x \in SystemInputs, p \in Positions :
                    FormatTick(axes[call.axis].minor, x, p) = ""

C3_Witness ==
    /\ Called("setup_bytes_formatters")
    /\ call.minor = <<>>
    /\ axes[call.axis].minor = NullFormatter
    /\ axes[call.axis].major = FuncFormatter("bytes_to_human_readable")

\* the n-th colour (from 1) of a palette
Nth(palette, n) == palette[n - 1]

\* C4: category_colors and category_markers each have exactly the keys
\* prime, round, round_minus_one; the markers are "*", "x", "o"; the colours
\* are the 4th, 1st and 3rd of the 6-colour palette, three different colours.
C4_PaletteMappings ==
    /\ DOMAIN category_colors = {"prime", "round", "round_minus_one"}
    /\ DOMAIN category_markers = {"prime", "round", "round_minus_one"}
    /\ category_markers["prime"] = "*"
    /\ category_markers["round"] = "x"
    /\ category_markers["round_minus_one"] = "o"
    /\ DOMAIN colors = 0..5
    /\ category_colors["prime"] = Nth(colors, 4)
    /\ category_colors["round"] = Nth(colors, 1)
    /\ category_colors["round_minus_one"] = Nth(colors, 3)
    /\ Cardinality({category_colors[k] : k \in DOMAIN category_colors}) = 3

C4_Witness ==
    /\ Called("lookup")
    /\ call.key = "prime"
    /\ call.mapping = "category_colors"
    /\ call.value = <<Nth(colors, 4)>>

\* C5: a lookup of one of the three labels gives the mapping's value without
\* an error; a lookup of any other label fails with KeyError, gives no value,
\* and leaves the mapping with its three keys.
C5_LookupClosedSet ==
    Called("lookup") =>
        LET mapping == IF call.mapping = "category_colors"
                       THEN category_colors
                       ELSE category_markers
        IN  /\ call.key \in Labels =>
                  /\ call.raised = ""
                  /\ call.value = <<mapping[call.key]>>
            /\ call.key \notin Labels =>
                  /\ call.raised = "KeyError"
                  /\ call.value = <<>>
            /\ DOMAIN category_colors = Labels
            /\ DOMAIN category_markers = Labels

C5_Witness ==
    /\ Called("lookup")
    /\ call.key = "square"
    /\ call.raised = "KeyError"

\* C6: whatever the configuration was, after setup_plotting_style() the
\* settings of the ggplot theme are in force, figure.dpi is 300, text.usetex
\* is on and font.family is serif (none of them undone by the theme).
C6_StyleAfterSetup ==
    Called("setup_plotting_style") =>
        /\ \A k \in DOMAIN StyleLibrary("ggplot") :
              rcParams[k] = StyleLibrary("ggplot")[k]
        /\ rcParams["figure.dpi"] = 300
        /\ rcParams["text.usetex"] = TRUE
        /\ rcParams["font.family"] = "serif"

C6_Witness ==
    /\ Called("setup_plotting_style")
    /\ rcParams["lines.linewidth"] = 2
    /\ rcParams["figure.dpi"] = 300

\* C7: setup_plotting_style() is idempotent: a call that follows a call
\* leaves the configuration as the first call left it.
C7_StyleIdempotent ==
    [][(call.op = "setup_plotting_style" /\ call'.op = "setup_plotting_style")
          => rcParams' = rcParams]_vars

C7_Witness ==
    /\ Called("setup_plotting_style")
    /\ call.nth >= 2

\* C9: a setup_bytes_formatters call changes nothing but the formatters of
\* the axis it is given: the configuration, the two mappings and every other
\* axis stay as they were; a bytes_to_human_readable call changes nothing.
C9_Frame ==
    [][/\ call'.op = "setup_bytes_formatters" =>
            /\ rcParams' = rcParams
            /\ category_colors' = category_colors
            /\ category_markers' = category_markers
            /\ \A a \in Axes \ {call'.axis} : axes'[a] = axes[a]
       /\ call'.op = "bytes_to_human_readable" =>
            /\ rcParams' = rcParams
            /\ axes' = axes
            /\ category_colors' = category_colors
            /\ category_markers' = category_markers]_vars

C9_Witness ==
    /\ Called("setup_bytes_formatters")
    /\ call.axis = "xaxis"
    /\ axes["xaxis"].major = FuncFormatter("bytes_to_human_readable")
    /\ axes["yaxis"] = [major |-> NullFormatter, minor |-> ScalarFormatter]
    /\ rcParams["figure.dpi"] = 100

====
